---- MODULE Spec2Model ----
(***************************************************************************)
(* A model of the pluralrules code generator and of the CLDR plural rule   *)
(* parser:                                                                 *)
(*   - the locale identifier encoder (str_to_u64, str_to_u32),             *)
(*   - the category decision generator (create_return, gen_mid) together   *)
(*     with the meaning of the chain it emits,                             *)
(*   - the nom parser of cldr_pluralrules_parser (parse_rule,              *)
(*     parse_condition and the combinators below them), character by       *)
(*     character.                                                          *)
(* Each component has its own specification (SpecEnc, SpecGen, SpecParse); *)
(* Spec is their union.                                                    *)
(***************************************************************************)
EXTENDS Integers, Sequences, FiniteSets, TLC

VARIABLES
    subtag,          \* encoder: the bytes of the subtag string handed to the encoder
    raw,             \* encoder: which encoder ran and what it returned
    pluralrule_set,  \* generator: the (category, predicate) pairs handed to gen_mid
    rule_tokens,     \* generator: the token stream gen_mid built (empty before)
    decision,        \* generator: the operand and the category the chain returned for it
    text,            \* parser: the input text, a sequence of characters
    origin,          \* parser: how the caller composed the text
    parsed           \* parser: which entry point ran and its IResult

vars == <<subtag, raw, pluralrule_set, rule_tokens, decision, text, origin, parsed>>
encVars == <<subtag, raw>>
genVars == <<pluralrule_set, rule_tokens, decision>>
parseVars == <<text, origin, parsed>>

(***************************************************************************)
(* Bounds of the model.                                                    *)
(***************************************************************************)
MaxSubtagLen == 9
MaxPairs == 3
MaxItems == 2
MaxRelations == 3
MaxSamples == 2
MaxWhiteSpace == 2

(***************************************************************************)
(* Locale identifier encoder.                                              *)
(* A u32 is an integer; a u64 is kept as two 32-bit halves, lo + 2^32*hi.  *)
(* Every byte is ASCII (< 128), so each half stays below 2^31.             *)
(***************************************************************************)
AsciiBytes == {48, 97, 122}

U64Width == 8
U32Width == 4

\* bytes[..s_bytes.len()].copy_from_slice(s_bytes) on a zeroed array of `width` bytes
copy_from_slice(s, width) == [i \in 1..width |-> IF i <= Len(s) THEN s[i] ELSE 0]

\* u32::from_le_bytes on the four bytes b[k+1..k+4]: the last byte is the most significant
from_le_bytes_be(b, k) == ((b[k+1] * 256 + b[k+2]) * 256 + b[k+3]) * 256 + b[k+4]
from_le_bytes(b, k) == ((b[k+4] * 256 + b[k+3]) * 256 + b[k+2]) * 256 + b[k+1]

\* a variant that cuts the string at the width instead of failing the slice check
str_to_u64_truncating(s) ==
    LET b == copy_from_slice(s, U64Width)
    IN  [panic |-> FALSE, lo |-> from_le_bytes(b, 0), hi |-> from_le_bytes(b, 4)]
\* the slice bytes[..len] of an 8-byte array panics when len > 8
str_to_u64(s) ==
    IF Len(s) > U64Width
    THEN [panic |-> TRUE, lo |-> 0, hi |-> 0]
    ELSE LET b == copy_from_slice(s, U64Width)
         IN  [panic |-> FALSE, lo |-> from_le_bytes(b, 0), hi |-> from_le_bytes(b, 4)]

str_to_u32(s) ==
    IF Len(s) > U32Width
    THEN [panic |-> TRUE, lo |-> 0, hi |-> 0]
    ELSE LET b == copy_from_slice(s, U32Width)
         IN  [panic |-> FALSE, lo |-> from_le_bytes(b, 0), hi |-> 0]

InitEnc ==
    /\ subtag = <<>>
    /\ raw = [fn |-> "none", out |-> [panic |-> FALSE, lo |-> 0, hi |-> 0]]

\* the caller supplies one more byte of the subtag
PushByte ==
    /\ raw.fn = "none"
    /\ Len(subtag) < MaxSubtagLen
    /\ \E b \in AsciiBytes : subtag' = Append(subtag, b)
    /\ UNCHANGED <<raw, genVars, parseVars>>

StrToU64 ==
    /\ raw.fn = "none"
    /\ raw' = [fn |-> "str_to_u64", out |-> str_to_u64(subtag)]
    /\ UNCHANGED <<subtag, genVars, parseVars>>

StrToU32 ==
    /\ raw.fn = "none"
    /\ raw' = [fn |-> "str_to_u32", out |-> str_to_u32(subtag)]
    /\ UNCHANGED <<subtag, genVars, parseVars>>

(***************************************************************************)
(* Category decision generator.                                            *)
(* A predicate is a token stream that gen_mid never looks into; here it is *)
(* one of a few tests of the operand n.  The emitted chain is a sequence   *)
(* of tokens: `if <exp>`, a block `{ PluralCategory::X }`, and `else`.     *)
(***************************************************************************)
PluralCategory == {"ZERO", "ONE", "TWO", "FEW", "MANY", "OTHER"}
Predicates == {"n == 1", "n != 0", "n == 2"}
Operands == 0..2

Holds(exp, n) ==
    CASE exp = "n == 1" -> n = 1
      [] exp = "n != 0" -> n # 0
      [] exp = "n == 2" -> n = 2

TokIf(exp) == [t |-> "if", exp |-> exp, cat |-> "-"]
TokBlock(cat) == [t |-> "block", exp |-> "-", cat |-> cat]
TokElse == [t |-> "else", exp |-> "-", cat |-> "-"]

\* a slip that emits FEW for the MANY arm
create_return_slip(cat, exp) ==
    IF cat = "OTHER" THEN <<TokBlock("OTHER")>>
    ELSE <<TokIf(exp), TokBlock(IF cat = "MANY" THEN "FEW" ELSE cat)>>
create_return(cat, exp) ==
    IF cat = "OTHER" THEN <<TokBlock("OTHER")>>
    ELSE <<TokIf(exp), TokBlock(cat)>>

RECURSIVE gen_mid_fold(_, _, _)
gen_mid_fold(set, k, tokens) ==
    IF k > Len(set) THEN tokens
    ELSE gen_mid_fold(set, k + 1,
                      tokens \o <<TokElse>> \o create_return(set[k][1], set[k][2]))

\* the rule_tokens of gen_mid
gen_mid(set) ==
    IF Len(set) = 0 THEN <<TokBlock("OTHER")>>
    ELSE gen_mid_fold(set, 2, create_return(set[1][1], set[1][2]))
             \o <<TokElse, TokBlock("OTHER")>>

\* The closure body `{ #rule_tokens }` as Rust reads it: an expression is a
\* block, or `if exp block else expression`; anything else does not compile.
Malformed == [cat |-> "MALFORMED", next |-> 0]

RECURSIVE EvalExpr(_, _, _)
EvalExpr(toks, k, n) ==
    IF k > Len(toks) THEN Malformed
    ELSE IF toks[k].t = "block" THEN [cat |-> toks[k].cat, next |-> k + 1]
    ELSE IF /\ toks[k].t = "if"
            /\ k + 2 <= Len(toks)
            /\ toks[k + 1].t = "block"
            /\ toks[k + 2].t = "else"
         THEN LET rest == EvalExpr(toks, k + 3, n)
              IN  IF rest.cat = "MALFORMED" THEN Malformed
                  ELSE IF Holds(toks[k].exp, n)
                       THEN [cat |-> toks[k + 1].cat, next |-> rest.next]
                       ELSE rest
    ELSE Malformed

EvalChain(toks, n) ==
    LET r == EvalExpr(toks, 1, n)
    IN  IF r.next = Len(toks) + 1 THEN r.cat ELSE "MALFORMED"

InitGen ==
    /\ pluralrule_set = <<>>
    /\ rule_tokens = <<>>
    /\ decision = [made |-> FALSE, n |-> 0, cat |-> "-"]

\* the assembly step appends one more (category, predicate) pair
AddPair ==
    /\ rule_tokens = <<>>
    /\ Len(pluralrule_set) < MaxPairs
    /\ \E cat \in PluralCategory, exp \in Predicates :
           pluralrule_set' = Append(pluralrule_set, <<cat, exp>>)
    /\ UNCHANGED <<rule_tokens, decision, encVars, parseVars>>

GenMid ==
    /\ rule_tokens = <<>>
    /\ rule_tokens' = gen_mid(pluralrule_set)
    /\ UNCHANGED <<pluralrule_set, decision, encVars, parseVars>>

\* the generated closure is called on an operand
CallRule ==
    /\ rule_tokens # <<>>
    /\ ~decision.made
    /\ \E n \in Operands :
           decision' = [made |-> TRUE, n |-> n, cat |-> EvalChain(rule_tokens, n)]
    /\ UNCHANGED <<pluralrule_set, rule_tokens, encVars, parseVars>>

(***************************************************************************)
(* Parser.  A text is a sequence of one-character strings; the character   *)
(* U+2026 (horizontal ellipsis) is written "U2026".  A parser takes the    *)
(* text and the position it starts at and returns an IResult: ok, the      *)
(* position of the unconsumed remainder (of the failure when not ok) and   *)
(* the value.  Option is a sequence of length 0 (None) or 1 (Some).        *)
(***************************************************************************)
Digits == {"0", "1", "2", "3", "4", "5", "6", "7", "8", "9"}
\* nom's space0 and space1 take spaces and tabs
SpaceChars == {" ", "\t"}
\* str::trim takes Unicode White_Space, of which these are modelled
WhiteSpace == {" ", "\t", "\n", "\r"}

Ok(p, v) == [ok |-> TRUE, pos |-> p, val |-> v]
Err(p) == [ok |-> FALSE, pos |-> p, val |-> <<>>]

\* the combinators: a sequence stops at the first failure, alt takes the first
\* success, map changes the value, opt turns a failure into None at `i`
Then(r, Rest(_)) == IF r.ok THEN Rest(r) ELSE r
OrElse(r, other) == IF r.ok THEN r ELSE other
Map(r, F(_)) == IF r.ok THEN Ok(r.pos, F(r.val)) ELSE r
Opt(r, i) == IF r.ok THEN Ok(r.pos, <<r.val>>) ELSE Ok(i, <<>>)
Let(v, Body(_)) == Body(v)

RECURSIVE SpanEnd(_, _, _)
SpanEnd(s, i, set) ==
    IF i <= Len(s) /\ s[i] \in set THEN SpanEnd(s, i + 1, set) ELSE i

space0(s, i) == Ok(SpanEnd(s, i, SpaceChars), <<>>)

AtLeastOne(i, j) == IF j > i THEN Ok(j, <<>>) ELSE Err(i)
space1(s, i) == AtLeastOne(i, SpanEnd(s, i, SpaceChars))

tag(t, s, i) ==
    IF i + Len(t) - 1 <= Len(s) /\ SubSeq(s, i, i + Len(t) - 1) = t
    THEN Ok(i + Len(t), t)
    ELSE Err(i)

DigitValue(c) ==
    CASE c = "0" -> 0 [] c = "1" -> 1 [] c = "2" -> 2 [] c = "3" -> 3 [] c = "4" -> 4
      [] c = "5" -> 5 [] c = "6" -> 6 [] c = "7" -> 7 [] c = "8" -> 8 [] c = "9" -> 9

\* s.parse::<usize>() on the digits s[i..j-1]; the texts of the model are far
\* too short to overflow usize
RECURSIVE parse_usize(_, _, _, _)
parse_usize(s, i, j, acc) ==
    IF i >= j THEN acc ELSE parse_usize(s, i + 1, j, acc * 10 + DigitValue(s[i]))

\* digit1 up to j, then the number
digits_to_value(s, i, j) == IF j > i THEN Ok(j, parse_usize(s, i, j, 0)) ELSE Err(i)
value(s, i) == digits_to_value(s, i, SpanEnd(s, i, Digits))

range(s, i) ==
    Then(value(s, i), LAMBDA lo :
    Then(tag(<<".", ".">>, s, lo.pos), LAMBDA dots :
    Map(value(s, dots.pos), LAMBDA hi : [lower_val |-> lo.val, upper_val |-> hi])))

ItemRange(r) == [item |-> "Range", lower_val |-> r.lower_val, upper_val |-> r.upper_val]
ItemValue(v) == [item |-> "Value", lower_val |-> v, upper_val |-> v]

range_list_item(s, i) ==
    OrElse(Map(range(s, i), ItemRange), Map(value(s, i), ItemValue))

\* the separator (space0, tag(separator), space0)
symbol_separator(separator, s, i) ==
    Then(space0(s, i), LAMBDA a :
    Then(tag(separator, s, a.pos), LAMBDA c : space0(s, c.pos)))

\* the separator (space1, tag(word), space1)
word_separator(word, s, i) ==
    Then(space1(s, i), LAMBDA a :
    Then(tag(word, s, a.pos), LAMBDA w : space1(s, w.pos)))

\* one round of the loop of separated_list0 / separated_list1, from position
\* i with the elements acc: `next` is the separator followed by an element.
\* No separator or no element ends the list before the separator; an element
\* that consumed nothing is the error of nom's infinite loop check.
ListStep(next, i, acc) ==
    IF ~next.ok THEN [more |-> FALSE, res |-> Ok(i, acc)]
    ELSE IF next.pos = i THEN [more |-> FALSE, res |-> Err(i)]
    ELSE [more |-> TRUE, res |-> Ok(next.pos, Append(acc, next.val))]

RECURSIVE range_list_rest(_, _)
range_list_rest(s, l) ==
    Let(ListStep(Then(symbol_separator(<<",">>, s, l.pos),
                      LAMBDA sep : range_list_item(s, sep.pos)),
                 l.pos, l.val),
        LAMBDA step : IF step.more THEN range_list_rest(s, step.res) ELSE step.res)

\* separated_list0: no first element is an empty list, not an error
range_list(s, i) ==
    Let(range_list_item(s, i), LAMBDA first :
        IF first.ok THEN range_list_rest(s, Ok(first.pos, <<first.val>>))
        ELSE Ok(i, <<>>))

OperandOf(c) ==
    CASE c = "n" -> "N" [] c = "i" -> "I" [] c = "v" -> "V"
      [] c = "w" -> "W" [] c = "f" -> "F" [] c = "t" -> "T"

operand(s, i) ==
    IF i <= Len(s) /\ s[i] \in {"n", "i", "v", "w", "f", "t"}
    THEN Ok(i + 1, OperandOf(s[i]))
    ELSE Err(i)

mod_expression(s, i) ==
    Opt(Then(space0(s, i), LAMBDA a :
        Then(OrElse(tag(<<"m", "o", "d">>, s, a.pos), tag(<<"%">>, s, a.pos)), LAMBDA sym :
        Then(space1(s, sym.pos), LAMBDA b : value(s, b.pos)))),
        i)

expression(s, i) ==
    Then(operand(s, i), LAMBDA o :
    Map(mod_expression(s, o.pos), LAMBDA m : [operand |-> o.val, modulus |-> m]))

\* the alternative (tag("is"), space1, opt(tag("not")))
relation_operator_is(s, i) ==
    Then(tag(<<"i", "s">>, s, i), LAMBDA a :
    Then(space1(s, a.pos), LAMBDA b :
    Map(Opt(tag(<<"n", "o", "t">>, s, b.pos), b.pos), LAMBDA n :
        IF n # <<>> THEN "IsNot" ELSE "Is")))

\* the alternative (tag("not"), space1, alt((tag("in"), tag("within")))),
\* the second inner alternative yielding `within`
relation_operator_not(s, i, within) ==
    Then(tag(<<"n", "o", "t">>, s, i), LAMBDA a :
    Then(space1(s, a.pos), LAMBDA b :
    OrElse(Map(tag(<<"i", "n">>, s, b.pos), LAMBDA x : "NotIn"),
           Map(tag(<<"w", "i", "t", "h", "i", "n">>, s, b.pos), LAMBDA x : within))))

relation_operator_alt(s, i, within) ==
    OrElse(Map(tag(<<"=">>, s, i), LAMBDA x : "EQ"),
    OrElse(Map(tag(<<"!", "=">>, s, i), LAMBDA x : "NotEQ"),
    OrElse(relation_operator_is(s, i),
    OrElse(Map(tag(<<"i", "n">>, s, i), LAMBDA x : "In"),
    OrElse(relation_operator_not(s, i, within),
           Map(tag(<<"w", "i", "t", "h", "i", "n">>, s, i), LAMBDA x : "Within"))))))

\* a slip that yields Within for `not within`
relation_operator_slip(s, i) == relation_operator_alt(s, i, "Within")
relation_operator(s, i) == relation_operator_alt(s, i, "NotWithin")

relation(s, i) ==
    Then(expression(s, i), LAMBDA e :
    Then(space0(s, e.pos), LAMBDA a :
    Then(relation_operator(s, a.pos), LAMBDA op :
    Then(space0(s, op.pos), LAMBDA b :
    Map(range_list(s, b.pos), LAMBDA rl :
        [expression |-> e.val, operator |-> op.val, range_list |-> rl])))))

\* separated_list1 of relations after its first element; `or` is a separator
\* too when `loose`
RECURSIVE relation_list_rest(_, _, _)
relation_list_rest(loose, s, l) ==
    Let(ListStep(Then(OrElse(word_separator(<<"a", "n", "d">>, s, l.pos),
                             IF loose THEN word_separator(<<"o", "r">>, s, l.pos)
                             ELSE Err(l.pos)),
                      LAMBDA sep : relation(s, sep.pos)),
                 l.pos, l.val),
        LAMBDA step : IF step.more THEN relation_list_rest(loose, s, step.res)
                      ELSE step.res)

\* `or` taken as a separator of relations too, so that it binds as tightly as `and`
and_condition_loose(s, i) ==
    Then(relation(s, i), LAMBDA first :
        relation_list_rest(TRUE, s, Ok(first.pos, <<first.val>>)))
and_condition(s, i) ==
    Then(relation(s, i), LAMBDA first :
        relation_list_rest(FALSE, s, Ok(first.pos, <<first.val>>)))

RECURSIVE condition_rest(_, _)
condition_rest(s, l) ==
    Let(ListStep(Then(word_separator(<<"o", "r">>, s, l.pos),
                      LAMBDA sep : and_condition(s, sep.pos)),
                 l.pos, l.val),
        LAMBDA step : IF step.more THEN condition_rest(s, step.res) ELSE step.res)

\* separated_list1((space1, tag("or"), space1), and_condition)
condition(s, i) ==
    Then(and_condition(s, i), LAMBDA first :
        condition_rest(s, Ok(first.pos, <<first.val>>)))

\* str::trim
TrimBetween(s, first, ends) ==
    SubSeq(s, first, CHOOSE j \in ends : \A k \in ends : k <= j)
trim(s) ==
    TrimBetween(s, SpanEnd(s, 1, WhiteSpace),
                {0} \cup {j \in 1..Len(s) : s[j] \notin WhiteSpace})

\* the two early returns on the trimmed text: "" is handed back as the
\* remainder, so everything counts as consumed
parse_condition_early(s, t, sample_check) ==
    IF Len(t) = 0 THEN Ok(Len(s) + 1, <<>>)
    ELSE IF sample_check /\ t[1] = "@" THEN Ok(Len(s) + 1, <<>>)
    ELSE condition(s, 1)

\* parse_condition without its second early return
parse_condition_no_sample_check(s) == parse_condition_early(s, trim(s), FALSE)
parse_condition(s) == parse_condition_early(s, trim(s), TRUE)

decimal_value(s, i) ==
    Then(value(s, i), LAMBDA n :
    Map(Opt(Then(tag(<<".">>, s, n.pos), LAMBDA dot : value(s, dot.pos)), n.pos),
        LAMBDA d : [integer |-> n.val, decimal |-> d]))

sample_range(s, i) ==
    Then(decimal_value(s, i), LAMBDA lo :
    Map(Opt(Then(symbol_separator(<<"~">>, s, lo.pos),
                 LAMBDA sep : decimal_value(s, sep.pos)),
            lo.pos),
        LAMBDA hi : [lower_val |-> lo.val, upper_val |-> hi]))

RECURSIVE sample_list_rest(_, _)
sample_list_rest(s, l) ==
    Let(ListStep(Then(symbol_separator(<<",">>, s, l.pos),
                      LAMBDA sep : sample_range(s, sep.pos)),
                 l.pos, l.val),
        LAMBDA step : IF step.more THEN sample_list_rest(s, step.res) ELSE step.res)

sample_list(s, i) ==
    Then(sample_range(s, i), LAMBDA first :
    Then(sample_list_rest(s, Ok(first.pos, <<first.val>>)), LAMBDA l :
    Map(Opt(Then(symbol_separator(<<",">>, s, l.pos), LAMBDA sep :
                 OrElse(tag(<<".", ".", ".">>, s, sep.pos),
                        tag(<<"U2026">>, s, sep.pos))),
            l.pos),
        LAMBDA e : [sample_ranges |-> l.val, ellipsis |-> e # <<>>])))

\* preceded((space1, tag(marker), space1), sample_list)
sample_clause(marker, s, i) ==
    Then(word_separator(marker, s, i), LAMBDA sep : sample_list(s, sep.pos))

\* opt(clause), or, when `strict`, a clause whose marker is there but whose
\* list does not parse fails
optional_clause(strict, marker, s, i) ==
    Let(sample_clause(marker, s, i), LAMBDA c :
        IF strict /\ ~c.ok /\ word_separator(marker, s, i).ok THEN c
        ELSE Opt(c, i))

samples_of(strict, s, i) ==
    Then(optional_clause(strict, <<"@", "i", "n", "t", "e", "g", "e", "r">>, s, i), LAMBDA integer :
    Map(optional_clause(strict, <<"@", "d", "e", "c", "i", "m", "a", "l">>, s, integer.pos), LAMBDA decimal :
        IF integer.val # <<>> \/ decimal # <<>>
        THEN <<[integer |-> integer.val, decimal |-> decimal]>>
        ELSE <<>>))

\* a variant in which a clause that starts but does not parse fails the rule
samples_strict(s, i) == samples_of(TRUE, s, i)
\* both clauses are under opt: a clause that does not parse consumes nothing
samples(s, i) == samples_of(FALSE, s, i)

parse_rule(s) ==
    Then(parse_condition(s), LAMBDA c :
    Map(samples(s, c.pos), LAMBDA sm : [condition |-> c.val, samples |-> sm]))

(***************************************************************************)
(* The texts handed to the parser.  The caller writes a text of one of     *)
(* five shapes out of the pieces below and keeps, in `origin`, the pieces  *)
(* it wrote; the empty text is there from the start.                       *)
(***************************************************************************)
\* what a caller may put between two tokens: nothing or one space
Blank == {<<>>, <<" ">>}

OperandTexts ==
    { [txt |-> <<"n">>, operand |-> "N"],
      [txt |-> <<"i">>, operand |-> "I"],
      [txt |-> <<"w">>, operand |-> "W"] }

ModuloSymbols == {<<"%">>, <<"m", "o", "d">>}

\* an expression: an operand alone, or n with a modulus written with any
\* spacing around the symbol
ExpressionTexts ==
    { [txt |-> o.txt, ast |-> [operand |-> o.operand, modulus |-> <<>>],
       sym |-> <<>>, pre |-> <<>>, post |-> <<>>] : o \in OperandTexts }
    \cup
    { [txt |-> <<"n">> \o pre \o sym \o post \o <<"1", "0">>,
       ast |-> [operand |-> "N", modulus |-> <<10>>],
       sym |-> sym, pre |-> pre, post |-> post] :
         pre \in Blank, post \in Blank, sym \in ModuloSymbols }

\* the operator spellings of the grammar
OperatorTexts ==
    { [txt |-> <<"=">>, operator |-> "EQ", word |-> FALSE],
      [txt |-> <<"!", "=">>, operator |-> "NotEQ", word |-> FALSE],
      [txt |-> <<"i", "s">>, operator |-> "Is", word |-> TRUE],
      [txt |-> <<"i", "s", " ", "n", "o", "t">>, operator |-> "IsNot", word |-> TRUE],
      [txt |-> <<"i", "s", " ", " ", "n", "o", "t">>, operator |-> "IsNot", word |-> TRUE],
      [txt |-> <<"i", "n">>, operator |-> "In", word |-> TRUE],
      [txt |-> <<"n", "o", "t", " ", "i", "n">>, operator |-> "NotIn", word |-> TRUE],
      [txt |-> <<"w", "i", "t", "h", "i", "n">>, operator |-> "Within", word |-> TRUE],
      [txt |-> <<"n", "o", "t", " ", "w", "i", "t", "h", "i", "n">>,
       operator |-> "NotWithin", word |-> TRUE],
      [txt |-> <<"n", "o", "t", " ", " ", "w", "i", "t", "h", "i", "n">>,
       operator |-> "NotWithin", word |-> TRUE] }

ItemTexts ==
    { [txt |-> <<"1">>, ast |-> ItemValue(1)],
      [txt |-> <<"2", ".", ".", "3">>, ast |-> ItemRange([lower_val |-> 2, upper_val |-> 3])] }

CommaTexts == {<<",">>, <<" ", ",", " ">>}

\* the range lists of exactly k items
RECURSIVE RangeListTextsOf(_)
RangeListTextsOf(k) ==
    IF k = 0 THEN {[txt |-> <<>>, ast |-> <<>>]}
    ELSE IF k = 1 THEN {[txt |-> it.txt, ast |-> <<it.ast>>] : it \in ItemTexts}
    ELSE { [txt |-> l.txt \o c \o it.txt, ast |-> Append(l.ast, it.ast)] :
             l \in RangeListTextsOf(k - 1), c \in CommaTexts, it \in ItemTexts }

RangeListTexts == UNION {RangeListTextsOf(k) : k \in 0..MaxItems}

\* the relations a condition is made of
BasicRelationTexts ==
    { [txt |-> <<"n", " ", "=", " ", "1">>,
       ast |-> [expression |-> [operand |-> "N", modulus |-> <<>>], operator |-> "EQ",
                range_list |-> <<ItemValue(1)>>]],
      [txt |-> <<"i", " ", "!", "=", " ", "2", ".", ".", "3">>,
       ast |-> [expression |-> [operand |-> "I", modulus |-> <<>>], operator |-> "NotEQ",
                range_list |-> <<ItemRange([lower_val |-> 2, upper_val |-> 3])>>]] }

\* `and` and `or` between two relations: spaced on both sides, or touching
\* the relation on one side
ConnectiveTexts ==
    { [txt |-> <<" ", "a", "n", "d", " ">>, word |-> "and", tight |-> FALSE],
      [txt |-> <<" ", "o", "r", " ">>, word |-> "or", tight |-> FALSE],
      [txt |-> <<"a", "n", "d", " ">>, word |-> "and", tight |-> TRUE],
      [txt |-> <<" ", "a", "n", "d">>, word |-> "and", tight |-> TRUE],
      [txt |-> <<"o", "r", " ">>, word |-> "or", tight |-> TRUE],
      [txt |-> <<" ", "o", "r">>, word |-> "or", tight |-> TRUE] }

\* the relation r joined to the groups written so far by the word `word`
Joined(dnf, word, r) ==
    IF word = "and"
    THEN [dnf EXCEPT ![Len(dnf)] = Append(dnf[Len(dnf)], r)]
    ELSE Append(dnf, <<r>>)

\* the conditions of exactly k relations: the text, the groups its `or`s and
\* `and`s denote, whether some connective touches a relation, and the number
\* of relations written before the first such connective
RECURSIVE ConditionTextsOf(_)
ConditionTextsOf(k) ==
    IF k = 1
    THEN { [txt |-> r.txt, dnf |-> <<<<r.ast>>>>, tight |-> FALSE, before |-> 1] :
             r \in BasicRelationTexts }
    ELSE { [txt |-> c.txt \o j.txt \o r.txt,
            dnf |-> Joined(c.dnf, j.word, r.ast),
            tight |-> c.tight \/ j.tight,
            before |-> IF c.tight THEN c.before ELSE IF j.tight THEN k - 1 ELSE k] :
             c \in ConditionTextsOf(k - 1), j \in ConnectiveTexts,
             r \in BasicRelationTexts }

ConditionTexts == UNION {ConditionTextsOf(k) : k \in 1..MaxRelations}

\* the condition part of a rule: nothing, or a condition of one or two relations
ConditionParts ==
    {[txt |-> <<>>, dnf |-> <<>>]}
    \cup { [txt |-> c.txt, dnf |-> c.dnf] :
             c \in {x \in ConditionTextsOf(1) \cup ConditionTextsOf(2) : ~x.tight} }

Decimal(n) == [integer |-> n, decimal |-> <<>>]
DecimalPoint(n, d) == [integer |-> n, decimal |-> <<d>>]

SampleRangeTexts ==
    { [txt |-> <<"1">>, ast |-> [lower_val |-> Decimal(1), upper_val |-> <<>>]],
      [txt |-> <<"2", "~", "4">>, ast |-> [lower_val |-> Decimal(2), upper_val |-> <<Decimal(4)>>]],
      [txt |-> <<"0", ".", "5">>, ast |-> [lower_val |-> DecimalPoint(0, 5), upper_val |-> <<>>]] }

EllipsisTexts ==
    { [txt |-> <<>>, ellipsis |-> FALSE],
      [txt |-> <<",", " ", "U2026">>, ellipsis |-> TRUE],
      [txt |-> <<",", " ", ".", ".", ".">>, ellipsis |-> TRUE] }

RECURSIVE SampleRangesOf(_)
SampleRangesOf(k) ==
    IF k = 1 THEN {[txt |-> r.txt, ast |-> <<r.ast>>] : r \in SampleRangeTexts}
    ELSE { [txt |-> l.txt \o <<",", " ">> \o r.txt, ast |-> Append(l.ast, r.ast)] :
             l \in SampleRangesOf(k - 1), r \in SampleRangeTexts }

\* the sample lists of at most k sample ranges, with or without an ellipsis
SampleListTexts(k) ==
    { [txt |-> l.txt \o e.txt,
       ast |-> [sample_ranges |-> l.ast, ellipsis |-> e.ellipsis]] :
         l \in UNION {SampleRangesOf(j) : j \in 1..k}, e \in EllipsisTexts }

\* a clause that is written, or left out
IntegerClauses ==
    {[txt |-> <<>>, ast |-> <<>>]}
    \cup { [txt |-> <<" ", "@", "i", "n", "t", "e", "g", "e", "r", " ">> \o l.txt,
            ast |-> <<l.ast>>] :
             l \in SampleListTexts(MaxSamples) }

DecimalClauses ==
    {[txt |-> <<>>, ast |-> <<>>]}
    \cup { [txt |-> <<" ", "@", "d", "e", "c", "i", "m", "a", "l", " ">> \o l.txt,
            ast |-> <<l.ast>>] :
             l \in SampleListTexts(1) }

\* the well-formed sample declarations: at least one clause
SampleTexts ==
    { [txt |-> p[1].txt \o p[2].txt,
       ast |-> [integer |-> p[1].ast, decimal |-> p[2].ast]] :
        p \in {q \in IntegerClauses \X DecimalClauses :
                  q[1].ast # <<>> \/ q[2].ast # <<>>} }

\* sample text that is not a sample declaration
MalformedSampleTexts ==
    { <<" ", "@", "i", "n", "t", "e", "g", "e", "r">>,
      <<" ", "@", "i", "n", "t", "e", "g", "e", "r", " ", "x">>,
      <<" ", "@", "i", "n", "t", "e", "g", "e", "r", " ", ",", " ", "1">>,
      <<" ", "@", "i", "n", "t", "e", "g", "e", "r", " ", "1", ",", ",", " ", "2">>,
      <<" ", "@", "i", "n", "t", "e", "g", "e", "r", "s", " ", "1">>,
      <<" ", "@", "d", "e", "c", "i", "m", "a", "l", " ", "~", "1">>,
      <<" ", "@", "i", "n", "t", "e", "g", "e", "r", " ", "1", " ", "@", "d", "e", "c", "i", "m", "a", "l">>,
      <<" ", "@", "i", "n", "t", "e", "g", "e", "r", " ", "1", " ", "@", "d", "e", "c", "i", "m", "a", "l", " ", "x">>,
      <<" ", "@", "d", "e", "c", "i", "m", "a", "l", " ", "0", ".", "5", " ", "@", "i", "n", "t", "e", "g", "e", "r", " ", "1">> }

\* text after a condition that is neither a connective with its relation nor
\* a sample declaration
JunkTexts ==
    { <<" ", "x">>,
      <<"!">>,
      <<" ", "a", "n", "d">>,
      <<" ", "o", "r", " ">>,
      <<" ", "=">>,
      <<".", ".">>,
      <<",">>,
      <<" ", "a", "n", "d", " ", "n">> }

RECURSIVE WhiteSpaceTextsOf(_)
WhiteSpaceTextsOf(k) ==
    IF k = 0 THEN {<<>>}
    ELSE {Append(w, c) : w \in WhiteSpaceTextsOf(k - 1), c \in WhiteSpace}

WhiteSpaceTexts == UNION {WhiteSpaceTextsOf(k) : k \in 0..MaxWhiteSpace}

\* what may follow the leading whitespace of a text without a condition
SampleOnlyTexts ==
    { <<>>,
      <<"@">>,
      <<"@", "i", "n", "t", "e", "g", "e", "r", " ", "1", ",", " ", "2">>,
      <<"@", "d", "e", "c", "i", "m", "a", "l", " ", "0", ".", "5", " ">>,
      <<"@", "x">> }

NotParsed == [fn |-> "none", res |-> Ok(1, <<>>)]

(***************************************************************************)
(* Parser state and actions.                                               *)
(***************************************************************************)
InitParse ==
    /\ text = <<>>
    /\ origin = [kind |-> "none"]
    /\ parsed = NotParsed

Fresh == origin.kind = "none" /\ parsed.fn = "none"

\* expression, operator and range list, with nothing or one space around the operator
ComposeRelation ==
    /\ Fresh
    /\ \E e \in ExpressionTexts, wl \in Blank, op \in OperatorTexts, wr \in Blank,
          rl \in RangeListTexts :
           /\ origin' = [kind |-> "relation", expr |-> e, wl |-> wl, op |-> op,
                         wr |-> wr, rl |-> rl]
           /\ text' = e.txt \o wl \o op.txt \o wr \o rl.txt
    /\ UNCHANGED <<parsed, encVars, genVars>>

\* relations joined by `and` and `or`
ComposeCondition ==
    /\ Fresh
    /\ \E c \in ConditionTexts :
           /\ origin' = [kind |-> "condition", dnf |-> c.dnf, tight |-> c.tight,
                         before |-> c.before]
           /\ text' = c.txt
    /\ UNCHANGED <<parsed, encVars, genVars>>

\* a condition part followed by a sample declaration, well-formed or not
ComposeRule ==
    /\ Fresh
    /\ \E c \in ConditionParts :
           \/ \E sm \in SampleTexts :
                  /\ origin' = [kind |-> "rule", cond |-> c, wellformed |-> TRUE,
                                samples |-> sm.ast]
                  /\ text' = c.txt \o sm.txt
           \/ \E bad \in MalformedSampleTexts :
                  /\ origin' = [kind |-> "rule", cond |-> c, wellformed |-> FALSE,
                                samples |-> <<>>]
                  /\ text' = c.txt \o bad
    /\ UNCHANGED <<parsed, encVars, genVars>>

\* whitespace, then nothing or text that starts with the sample marker
ComposeSampleOnly ==
    /\ Fresh
    /\ \E w \in WhiteSpaceTexts, b \in SampleOnlyTexts :
           /\ origin' = [kind |-> "sample-only"]
           /\ text' = w \o b
    /\ UNCHANGED <<parsed, encVars, genVars>>

\* a condition followed by text the grammar has no place for
ComposeJunk ==
    /\ Fresh
    /\ \E c \in ConditionParts, j \in JunkTexts :
           /\ c.txt # <<>>
           /\ origin' = [kind |-> "junk", cond |-> c]
           /\ text' = c.txt \o j
    /\ UNCHANGED <<parsed, encVars, genVars>>

ParseRule ==
    /\ parsed.fn = "none"
    /\ parsed' = [fn |-> "parse_rule", res |-> parse_rule(text)]
    /\ UNCHANGED <<text, origin, encVars, genVars>>

ParseCondition ==
    /\ parsed.fn = "none"
    /\ parsed' = [fn |-> "parse_condition", res |-> parse_condition(text)]
    /\ UNCHANGED <<text, origin, encVars, genVars>>

NextEnc == PushByte \/ StrToU64 \/ StrToU32
NextGen == AddPair \/ GenMid \/ CallRule
NextParse ==
    \/ ComposeRelation
    \/ ComposeCondition
    \/ ComposeRule
    \/ ComposeSampleOnly
    \/ ComposeJunk
    \/ ParseRule
    \/ ParseCondition

Init == InitEnc /\ InitGen /\ InitParse
Next == NextEnc \/ NextGen \/ NextParse

SpecEnc == Init /\ [][NextEnc]_vars
SpecGen == Init /\ [][NextGen]_vars
SpecParse == Init /\ [][NextParse]_vars
Spec == Init /\ [][Next]_vars

(***************************************************************************)
(* Properties of the locale identifier encoder.                            *)
(***************************************************************************)
Pow256(i) == CASE i = 0 -> 1 [] i = 1 -> 256 [] i = 2 -> 65536 [] i = 3 -> 16777216

\* the sum of byte(s[i]) * 2^(8*(i-from)) over the string's bytes i in from..from+3
RECURSIVE ByteSum(_, _, _)
ByteSum(s, from, k) ==
    IF k > 3 THEN 0
    ELSE (IF from + k + 1 <= Len(s) THEN s[from + k + 1] * Pow256(k) ELSE 0)
         + ByteSum(s, from, k + 1)

\* byte i (from 0) of an encoded value, little-endian
ByteAt(out, i) ==
    IF i < 4 THEN (out.lo \div Pow256(i)) % 256 ELSE (out.hi \div Pow256(i - 4)) % 256

\* the string read back byte by byte, up to the zero padding
RECURSIVE DecodeLE(_, _, _)
DecodeLE(out, i, width) ==
    IF i >= width \/ ByteAt(out, i) = 0 THEN <<>>
    ELSE <<ByteAt(out, i)>> \o DecodeLE(out, i + 1, width)

WidthOf(fn) == IF fn = "str_to_u64" THEN U64Width ELSE U32Width

\* C4: for an ASCII subtag no longer than the width, the encoded value is the
\* sum of byte(s[i]) * 2^(8*i) with all higher bytes zero, and decoding it byte
\* by byte in little-endian order gives the subtag back.
C4_LittleEndianEncoding ==
    (raw.fn # "none" /\ Len(subtag) <= WidthOf(raw.fn)) =>
        /\ ~raw.out.panic
        /\ raw.out.lo = ByteSum(subtag, 0, 0)
        /\ raw.out.hi = (IF raw.fn = "str_to_u64" THEN ByteSum(subtag, 4, 0) ELSE 0)
        /\ DecodeLE(raw.out, 0, WidthOf(raw.fn)) = subtag

C4_Witness ==
    /\ raw.fn = "str_to_u64"
    /\ Len(subtag) = U64Width
    /\ subtag[1] # subtag[4]
    /\ subtag[5] # subtag[8]
    /\ ~raw.out.panic

\* C5 as stated: a subtag longer than the width is silently cut at the width,
\* the result being the encoding of its first 8 (resp. 4) bytes, with no error.
C5_SilentTruncation ==
    (raw.fn # "none" /\ Len(subtag) > WidthOf(raw.fn)) =>
        /\ ~raw.out.panic
        /\ raw.out.lo = ByteSum(subtag, 0, 0)
        /\ raw.out.hi = (IF raw.fn = "str_to_u64" THEN ByteSum(subtag, 4, 0) ELSE 0)

\* C5 amended: a subtag longer than the width makes the encoder panic (the
\* slice bound check fails); no encoding is returned and nothing is truncated.
C5_OversizePanics ==
    (raw.fn # "none" /\ Len(subtag) > WidthOf(raw.fn)) => raw.out.panic

C5_Witness ==
    /\ raw.fn = "str_to_u64"
    /\ Len(subtag) = U64Width + 1
    /\ raw.out.panic

(***************************************************************************)
(* Properties of the category decision generator.                          *)
(***************************************************************************)
\* the category of the first pair, in list order, whose predicate is true
RECURSIVE FirstMatch(_, _, _)
FirstMatch(set, k, n) ==
    IF k > Len(set) THEN "OTHER"
    ELSE IF Holds(set[k][2], n) THEN set[k][1]
    ELSE FirstMatch(set, k + 1, n)

NoOtherPair == \A k \in 1..Len(pluralrule_set) : pluralrule_set[k][1] # "OTHER"

\* C1 as stated: for every pair list, over all six categories, the chain
\* returns the category of the first pair whose predicate is true, else OTHER.
C1_FirstMatchAnyCategory ==
    decision.made => decision.cat = FirstMatch(pluralrule_set, 1, decision.n)

\* C1 amended: for every pair list whose categories are among ZERO, ONE, TWO,
\* FEW, MANY (no OTHER pair), of any length including zero, the chain returns
\* the category of the first pair whose predicate is true, else OTHER.
C1_FirstMatchWithoutOther ==
    (decision.made /\ NoOtherPair) =>
        decision.cat = FirstMatch(pluralrule_set, 1, decision.n)

C1_Witness ==
    /\ decision.made
    /\ NoOtherPair
    /\ Len(pluralrule_set) = 3
    /\ ~Holds(pluralrule_set[1][2], decision.n)
    /\ Holds(pluralrule_set[2][2], decision.n)
    /\ Holds(pluralrule_set[3][2], decision.n)
    /\ pluralrule_set[2][1] = "MANY"
    /\ pluralrule_set[3][1] = "ONE"
    /\ decision.cat = "MANY"

(***************************************************************************)
(* Properties of the parser.                                               *)
(***************************************************************************)
Remainder == SubSeq(text, parsed.res.pos, Len(text))
Consumed == parsed.res.ok /\ parsed.res.pos = Len(text) + 1

\* the text is all whitespace, or its first character after the leading
\* whitespace is the sample marker
EmptyOrSampleOnly ==
    \/ \A k \in 1..Len(text) : text[k] \in WhiteSpace
    \/ \E k \in 1..Len(text) :
           /\ text[k] = "@"
           /\ \A j \in 1..(k - 1) : text[j] \in WhiteSpace

\* C2: for every text that after trimming whitespace is empty or begins with
\* '@', parse_condition succeeds and returns the empty Condition.
C2_EmptyOrSampleOnlyIsEmptyCondition ==
    (parsed.fn = "parse_condition" /\ EmptyOrSampleOnly) =>
        parsed.res.ok /\ parsed.res.val = <<>>

C2_Witness ==
    /\ parsed.fn = "parse_condition"
    /\ Len(text) > 8
    /\ text[1] = "\t"
    /\ text[2] = " "
    /\ text[3] = "@"
    /\ parsed.res.ok
    /\ parsed.res.val = <<>>

(***************************************************************************)
(* The grammar `rule = condition sample_decl` of the specification, read   *)
(* as a grammar of tokens: GrammarX(s, P) is the set of positions at which *)
(* an X that starts at a position of P can end.  Whitespace between tokens *)
(* is free here, so nothing below depends on where the whitespace rule     *)
(* asks for it.                                                            *)
(***************************************************************************)
GrammarSkip(s, P) ==
    {j \in 1..(Len(s) + 1) :
        \E i \in P : i <= j /\ \A k \in i..(j - 1) : s[k] \in WhiteSpace}

GrammarToken(t, s, P) ==
    {i + Len(t) : i \in {j \in GrammarSkip(s, P) : tag(t, s, j).ok}}

GrammarValue(s, P) ==
    {j \in 2..(Len(s) + 1) :
        \E i \in GrammarSkip(s, P) : i < j /\ \A k \in i..(j - 1) : s[k] \in Digits}

GrammarItem(s, P) ==
    GrammarValue(s, P) \cup GrammarValue(s, GrammarToken(<<".", ".">>, s, GrammarValue(s, P)))

RECURSIVE GrammarItems(_, _)
GrammarItems(s, Q) ==
    LET more == Q \cup GrammarItem(s, GrammarToken(<<",">>, s, Q))
    IN  IF more = Q THEN Q ELSE GrammarItems(s, more)

GrammarRangeList(s, P) == GrammarItems(s, GrammarItem(s, P))

GrammarOperand(s, P) ==
    {i + 1 : i \in {j \in GrammarSkip(s, P) : operand(s, j).ok}}

GrammarExpression(s, P) ==
    GrammarOperand(s, P)
    \cup GrammarValue(s, GrammarToken(<<"%">>, s, GrammarOperand(s, P))
                         \cup GrammarToken(<<"m", "o", "d">>, s, GrammarOperand(s, P)))

GrammarOperator(s, P) ==
    GrammarToken(<<"=">>, s, P) \cup GrammarToken(<<"!", "=">>, s, P)
    \cup GrammarToken(<<"i", "s">>, s, P) \cup GrammarToken(<<"n", "o", "t">>, s, GrammarToken(<<"i", "s">>, s, P))
    \cup GrammarToken(<<"i", "n">>, s, P) \cup GrammarToken(<<"w", "i", "t", "h", "i", "n">>, s, P)
    \cup GrammarToken(<<"i", "n">>, s, GrammarToken(<<"n", "o", "t">>, s, P))
    \cup GrammarToken(<<"w", "i", "t", "h", "i", "n">>, s, GrammarToken(<<"n", "o", "t">>, s, P))

GrammarRelation(s, P) ==
    GrammarRangeList(s, GrammarOperator(s, GrammarExpression(s, P)))

RECURSIVE GrammarRelations(_, _)
GrammarRelations(s, Q) ==
    LET more == Q \cup GrammarRelation(s, GrammarToken(<<"a", "n", "d">>, s, Q))
    IN  IF more = Q THEN Q ELSE GrammarRelations(s, more)

GrammarAndCondition(s, P) == GrammarRelations(s, GrammarRelation(s, P))

RECURSIVE GrammarAndConditions(_, _)
GrammarAndConditions(s, Q) ==
    LET more == Q \cup GrammarAndCondition(s, GrammarToken(<<"o", "r">>, s, Q))
    IN  IF more = Q THEN Q ELSE GrammarAndConditions(s, more)

GrammarCondition(s, P) == GrammarAndConditions(s, GrammarAndCondition(s, P))

GrammarDecimal(s, P) ==
    GrammarValue(s, P) \cup GrammarValue(s, GrammarToken(<<".">>, s, GrammarValue(s, P)))

GrammarSampleRange(s, P) ==
    GrammarDecimal(s, P)
    \cup GrammarDecimal(s, GrammarToken(<<"~">>, s, GrammarDecimal(s, P)))

RECURSIVE GrammarSampleRanges(_, _)
GrammarSampleRanges(s, Q) ==
    LET more == Q \cup GrammarSampleRange(s, GrammarToken(<<",">>, s, Q))
    IN  IF more = Q THEN Q ELSE GrammarSampleRanges(s, more)

GrammarSampleList(s, P) ==
    LET l == GrammarSampleRanges(s, GrammarSampleRange(s, P))
    IN  l \cup GrammarToken(<<".", ".", ".">>, s, GrammarToken(<<",">>, s, l))
          \cup GrammarToken(<<"U2026">>, s, GrammarToken(<<",">>, s, l))

GrammarSampleDecl(s, P) ==
    LET a == P \cup GrammarSampleList(s, GrammarToken(<<"@", "i", "n", "t", "e", "g", "e", "r">>, s, P))
    IN  a \cup GrammarSampleList(s, GrammarToken(<<"@", "d", "e", "c", "i", "m", "a", "l">>, s, a))

\* the condition of a rule may be empty
GrammarRule(s, P) == GrammarSampleDecl(s, P \cup GrammarCondition(s, P))

Derivable(s) == (Len(s) + 1) \in GrammarSkip(s, GrammarRule(s, {1}))

\* C3 as stated: for every text that is not derivable in its entirety from
\* the grammar `rule = condition sample_decl`, parse_rule and parse_condition
\* return an error, never a successful Rule or Condition.
C3_UnderivableTextIsSyntaxError ==
    (parsed.fn # "none" /\ ~Derivable(text)) => ~parsed.res.ok

\* C6: for every rule text made of a well-formed condition followed by a
\* malformed sample clause, parse_rule does not fail, and the Condition it
\* returns is the one parse_condition returns for the condition part alone.
C6_MalformedSamplesLeaveCondition ==
    (parsed.fn = "parse_rule" /\ origin.kind = "rule" /\ ~origin.wellformed) =>
        /\ parsed.res.ok
        /\ parse_condition(origin.cond.txt).ok
        /\ parsed.res.val.condition = parse_condition(origin.cond.txt).val

C6_Witness ==
    /\ parsed.fn = "parse_rule"
    /\ origin.kind = "rule"
    /\ ~origin.wellformed
    /\ Len(origin.cond.dnf) = 2
    /\ parsed.res.ok
    /\ Len(parsed.res.val.condition) = 2
    /\ parsed.res.val.samples = <<>>
    /\ parsed.res.pos = Len(origin.cond.txt) + 1
    /\ Remainder # <<>>

\* C7 as stated: for every rule text `condition sample_decl` with a
\* well-formed @integer and/or @decimal clause, the condition part being
\* empty or not, parse_rule returns a Rule whose samples are present and hold
\* the clauses' sample ranges in order, the ellipsis flag set exactly when the
\* list ends with an ellipsis.
C7_SamplesPresent ==
    (parsed.fn = "parse_rule" /\ origin.kind = "rule" /\ origin.wellformed) =>
        /\ parsed.res.ok
        /\ parsed.res.val.samples = <<origin.samples>>

\* the operator and the spacing of a relation text keep to the whitespace
\* rule: a word operator has a space on both sides
WordOperatorSpaced == origin.op.word => (origin.wl # <<>> /\ origin.wr # <<>>)

\* the expression of a relation text is an operand alone or has its modulus
\* written with a space on both sides of the symbol
ModulusSpaced == origin.expr.pre # <<>> /\ origin.expr.post # <<>>
PlainExpression == origin.expr.sym = <<>> \/ ModulusSpaced

RelationWritten ==
    [expression |-> origin.expr.ast, operator |-> origin.op.operator,
     range_list |-> origin.rl.ast]

\* C8 as stated: zero or more spaces are accepted around `=`, `!=`, `%` and
\* `,`; a word operator that touches its neighbour is not parsed as that
\* operator.
C8_WhitespaceRule ==
    /\ (/\ parsed.fn = "parse_condition"
        /\ origin.kind = "relation"
        /\ ~origin.op.word
        /\ origin.expr.sym # <<"m", "o", "d">>
        /\ origin.rl.ast # <<>>)
           => (Consumed /\ parsed.res.val = <<<<RelationWritten>>>>)
    /\ (/\ parsed.fn = "parse_condition"
        /\ origin.kind = "relation"
        /\ origin.op.word
        /\ origin.expr.sym = <<>>
        /\ (origin.wl = <<>> \/ origin.wr = <<>>))
           => ~(parsed.res.ok /\ parsed.res.val[1][1].operator = origin.op.operator)
    /\ (/\ parsed.fn = "parse_condition"
        /\ origin.kind = "condition"
        /\ origin.tight)
           => ~(parsed.res.ok /\ parsed.res.val = origin.dnf)

\* the number of places at which the word t stands in the text
Occurrences(t) == Cardinality({i \in 1..Len(text) : tag(t, text, i).ok})

RECURSIVE RelationCount(_, _)
RelationCount(c, k) == IF k > Len(c) THEN 0 ELSE Len(c[k]) + RelationCount(c, k + 1)

\* C9: for every non-empty condition text that parse_condition accepts, the
\* result holds one AndCondition per `or`-separated group, in source order,
\* each holding exactly the relations of its group, in source order, and
\* never empty.
C9_DisjunctiveNormalForm ==
    (parsed.fn = "parse_condition" /\ Consumed /\ ~EmptyOrSampleOnly) =>
        /\ Len(parsed.res.val) = Occurrences(<<"o", "r">>) + 1
        /\ RelationCount(parsed.res.val, 1) = Occurrences(<<"o", "r">>) + Occurrences(<<"a", "n", "d">>) + 1
        /\ \A k \in 1..Len(parsed.res.val) : Len(parsed.res.val[k]) >= 1
        /\ origin.kind = "condition" => parsed.res.val = origin.dnf

C9_Witness ==
    /\ parsed.fn = "parse_condition"
    /\ origin.kind = "condition"
    /\ Consumed
    /\ Len(parsed.res.val) = 2
    /\ Len(parsed.res.val[1]) = 1
    /\ Len(parsed.res.val[2]) = 2
    /\ parsed.res.val[1][1].operator = "EQ"
    /\ parsed.res.val[2][1].operator = "NotEQ"
    /\ parsed.res.val[2][2].operator = "EQ"

\* C10: each of the eight operator spellings yields its own Operator, and a
\* relation text `expression rel_operator range_list` written with one of
\* them, once parsed, is a Relation with exactly that Operator and the whole
\* range list that follows it; a text with a space on both sides of a word
\* operator and of a modulus symbol, and a non-empty range list, is parsed.
C10_OperatorSpellings ==
    (parsed.fn = "parse_condition" /\ origin.kind = "relation") =>
        /\ Consumed => parsed.res.val = <<<<RelationWritten>>>>
        /\ (WordOperatorSpaced /\ PlainExpression /\ origin.rl.ast # <<>>) => Consumed

C10_Witness ==
    /\ parsed.fn = "parse_condition"
    /\ origin.kind = "relation"
    /\ origin.op.txt = <<"n", "o", "t", " ", "w", "i", "t", "h", "i", "n">>
    /\ origin.wl = <<" ">>
    /\ origin.wr = <<" ">>
    /\ Len(origin.rl.ast) = 2
    /\ Consumed
    /\ parsed.res.val[1][1].operator = "NotWithin"
    /\ Len(parsed.res.val[1][1].range_list) = 2
====
